---- MODULE Spec2Model ----
(***************************************************************************)
(* MEEF batch pipeline: the CLI processor (src/meef_cli.py) driving the    *)
(* external parser over a batch of samples and maintaining catalog.csv.    *)
(*                                                                         *)
(* Each sample of the batch is an item 1..NItems (the list handed to       *)
(* process_batch, in discovery order).  process_sample for one item is a   *)
(* sequence of steps; every access to the shared catalog file or to the    *)
(* shared counters is a step of its own, so that worker threads of the     *)
(* ThreadPoolExecutor interleave exactly where the code lets them.  One    *)
(* `with open(...)` block (open, write, close) is one step.                *)
(*                                                                         *)
(* A second specification, SpecFeat, runs the two feature extractors       *)
(* (src/data/models/extract_features.py for training and predict.py for    *)
(* inference) over one IR document and one schema.                         *)
(*                                                                         *)
(* Three more specifications cover what happens around a batch: SpecEntry  *)
(* writes the label and the notes of one catalog entry (meef_cli.py,       *)
(* meef.py, scripts/generate_catalog_full.py), SpecFind runs the discovery *)
(* functions over a directory, and SpecData walks the catalog in           *)
(* extract_all_features.                                                   *)
(***************************************************************************)
EXTENDS Integers, Sequences, FiniteSets, TLC

\* ---- bounds of the model ------------------------------------------------
NItems == 3          \* samples in the batch
NContents == 2       \* distinct byte contents the samples can have
MaxParallel == 2     \* largest --parallel value tried
MaxFaults == 1       \* file-system faults the environment injects per history

Items == 1..NItems
Contents == 1..NContents

\* ---- pure helpers -------------------------------------------------------

\* hashlib.sha256 over the bytes of a file: a function of the content only.
Digest(c) == <<"sha256", c>>

\* the value calculate_sha256 returns when the file cannot be read
HASH_ERROR == <<"HASH_ERROR", 0>>

\* a fingerprint that ignores the bytes it read
calculate_sha256ContentBlind(c, readable) == IF readable THEN Digest(1) ELSE HASH_ERROR

\* calculate_sha256(filepath): digest of the content, or HASH_ERROR
calculate_sha256(c, readable) == IF readable THEN Digest(c) ELSE HASH_ERROR

\* the header line written by csv.writer.writerow([...column names...])
HeaderRow == [hdr |-> TRUE, sha256 |-> <<"sha256", 0>>, local_path |-> 0]

\* a data line: sha256 and local_path columns (local_path is the item)
DataRow(h, i) == [hdr |-> FALSE, sha256 |-> h, local_path |-> i]

\* csv.DictReader over the file: the first line names the columns, every
\* later line is a row; the set of row.get('sha256', '') over the rows
ReadHashes(file) ==
    IF Len(file) = 0 THEN {}
    ELSE {file[k].sha256 : k \in 2..Len(file)}

\* a catalog left by an earlier invocation: the header and the row of a
\* sample (local_path 0, not in this batch) whose content is content 1
EarlierCatalog == <<HeaderRow, DataRow(Digest(1), 0)>>

\* the outcomes of one run_parser call
ParserOutcomes ==
    {"ok", "ok_no_artifact", "nonzero", "timeout", "tool_missing", "exception"}

\* the boolean run_parser returns for each outcome
RunParserResult(o) == o \in {"ok", "ok_no_artifact"}

\* ---- the feature extractors: pure helpers --------------------------------
\* A feature name is the sequence of its parts between underscores:
\* "top_api_1_count" is <<"top", "api", "1", "count">>.  The keys of the
\* behavior and cfg objects of an IR document are such sequences too.
\* A number is a fraction <<numerator, denominator>> in lowest terms, so
\* that the quotients of the derived ratios are values like any other.

RECURSIVE GCD(_, _)
GCD(a, b) == IF b = 0 THEN a ELSE GCD(b, a % b)

\* the number n / d (d > 0, n >= 0)
Quot(n, d) == IF n = 0 THEN <<0, 1>> ELSE <<n \div GCD(n, d), d \div GCD(n, d)>>
Num(n) == <<n, 1>>

\* dict.get(key, default)
Get(d, key, default) == IF key \in DOMAIN d THEN d[key] ELSE default

\* the number of top_api_<i>_count columns: `for i in range(10)`
TopK == 10

\* str(i) for the i the names are built from, and for "0"
Numerals == <<"0", "1", "2", "3", "4", "5", "6", "7", "8", "9", "10">>
str(i) == Numerals[i + 1]
\* int(s) succeeds on these strings only
IsNumeral(s) == \E k \in 1..Len(Numerals) : Numerals[k] = s
int(s) == (CHOOSE k \in 1..Len(Numerals) : Numerals[k] = s) - 1

\* important_opcodes, and opcode.lower() of each
important_opcodes ==
    <<"CALL", "MOV", "PUSH", "POP", "JMP", "RET", "ADD", "SUB", "XOR", "TEST">>
Lowered ==
    <<"call", "mov", "push", "pop", "jmp", "ret", "add", "sub", "xor", "test">>
lower(op) == Lowered[CHOOSE k \in 1..Len(important_opcodes) : important_opcodes[k] = op]
\* str.upper() of a name part: the ten mnemonics back to upper case; any
\* other part to a string that is no mnemonic of the documents
upper(part) ==
    IF \E k \in 1..Len(Lowered) : Lowered[k] = part
    THEN important_opcodes[CHOOSE k \in 1..Len(Lowered) : Lowered[k] = part]
    ELSE "?"

\* the behavior flags extract_features_from_ir reads, in its order
BehaviorFlags ==
    <<"network", "fileops", "registry", "memory", "injection", "crypto", "persist">>
\* the cfg scalars it reads, in its order, as key parts
CfgKeys ==
    <<<<"num", "blocks">>, <<"num", "edges">>, <<"branch", "density">>,
      <<"cyclomatic", "complexity">>>>
\* the default of each: cfg.get(key, default)
CfgDefault(key) == IF key = <<"cyclomatic", "complexity">> THEN Num(1) ELSE Num(0)

\* the keys of the features dict of extract_features_from_ir, in insertion
\* order; prepare_data keeps this order for feature_names
TrainingColumns ==
    [k \in 1..Len(BehaviorFlags) |-> <<"uses", BehaviorFlags[k]>>]
    \o [k \in 1..Len(CfgKeys) |-> <<"cfg">> \o CfgKeys[k]]
    \o << <<"num", "unique", "apis">>, <<"total", "api", "calls">> >>
    \o [k \in 1..TopK |-> <<"top", "api", str(k), "count">>]
    \o << <<"num", "unique", "opcodes">>, <<"total", "opcodes">> >>
    \o [k \in 1..Len(important_opcodes) |->
          <<"opcode", lower(important_opcodes[k]), "count">>]
    \o << <<"call", "ratio">>, <<"jmp", "ratio">>,
          <<"api", "to", "opcode", "ratio">> >>
TrainingColumnSet == {TrainingColumns[k] : k \in 1..Len(TrainingColumns)}

\* ir.get(section, {}) / ir.get(section, []): a section the document lacks
\* reads as empty.  A document records which sections it has in `has`.
Section(D, name) == IF name \in D.has THEN D[name] ELSE <<>>

\* sum(e.get('count', 0) for e in list)
RECURSIVE SumCounts(_)
SumCounts(list) ==
    IF list = <<>> THEN 0
    ELSE Get(Head(list), "count", 0) + SumCounts(Tail(list))

\* {e['name']: e['count'] for e in list} raises KeyError when an entry has
\* no name or no count
DictRaises(list) ==
    \E k \in 1..Len(list) : {"name", "count"} \ DOMAIN list[k] # {}
\* the dict itself: a later entry of the same name replaces an earlier one
NameCountDict(list) ==
    [n \in {list[k].name : k \in 1..Len(list)} |->
       list[CHOOSE k \in 1..Len(list) :
              /\ list[k].name = n
              /\ \A l \in 1..Len(list) : list[l].name = n => l <= k].count]

\* sorted(d.items(), key=lambda x: x[1], reverse=True), the values only
RECURSIVE SortedValues(_, _)
SortedValues(d, keys) ==
    IF keys = {} THEN <<>>
    ELSE LET top == CHOOSE n \in keys : \A m \in keys : d[m] <= d[n]
         IN  <<d[top]>> \o SortedValues(d, keys \ {top})

\* list without its k-th element
Without(list, k) == SubSeq(list, 1, k - 1) \o SubSeq(list, k + 1, Len(list))

\* sorted(list, key=lambda x: x.get('count', 0), reverse=True): a stable
\* sort, entries of equal key keep their order
RECURSIVE SortedByCount(_)
SortedByCount(list) ==
    IF list = <<>> THEN <<>>
    ELSE LET key(k) == Get(list[k], "count", 0)
             top == CHOOSE k \in 1..Len(list) :
                      /\ \A l \in 1..Len(list) : key(l) <= key(k)
                      /\ \A l \in 1..(k - 1) : key(l) < key(k)
         IN  <<list[top]>> \o SortedByCount(Without(list, top))

\* what an extractor returns: a value, or None after `except Exception`
None == [ok |-> FALSE, value |-> <<>>]
Returned(v) == [ok |-> TRUE, value |-> v]

\* -- extract_features_from_ir (training) -----------------------------------

\* the value stored under one key of the features dict
TrainValue(D, f) ==
    LET behavior == Section(D, "behavior")
        cfg == Section(D, "cfg")
        apis == Section(D, "apis")
        opcodes == Section(D, "opcodes")
        api_counts == NameCountDict(apis)
        sorted_apis == SortedValues(api_counts, DOMAIN api_counts)
        opcode_dict == NameCountDict(opcodes)
        total_opcodes == SumCounts(opcodes)
    IN  CASE f[1] = "uses" -> Num(Get(behavior, f, 0))
          [] f[1] = "cfg" ->
               IF Tail(f) \in DOMAIN cfg THEN Num(cfg[Tail(f)])
               ELSE CfgDefault(Tail(f))
          [] f = <<"num", "unique", "apis">> -> Num(Len(apis))
          [] f = <<"total", "api", "calls">> -> Num(SumCounts(apis))
          [] f[1] = "top" ->
               IF int(f[3]) - 1 < Len(sorted_apis)
               THEN Num(sorted_apis[int(f[3])]) ELSE Num(0)
          [] f = <<"num", "unique", "opcodes">> -> Num(Len(opcodes))
          [] f = <<"total", "opcodes">> -> Num(total_opcodes)
          [] f[1] = "opcode" -> Num(Get(opcode_dict, upper(f[2]), 0))
          [] f = <<"call", "ratio">> ->
               IF total_opcodes > 0
               THEN Quot(Get(opcode_dict, "CALL", 0), total_opcodes) ELSE Num(0)
          [] f = <<"jmp", "ratio">> ->
               IF total_opcodes > 0
               THEN Quot(Get(opcode_dict, "JMP", 0), total_opcodes) ELSE Num(0)
          [] f = <<"api", "to", "opcode", "ratio">> ->
               IF total_opcodes > 0
               THEN Quot(SumCounts(apis), total_opcodes) ELSE Num(0)

\* the whole function: the features dict, or None when a dict comprehension
\* raised KeyError
extract_features_from_ir(D) ==
    IF DictRaises(Section(D, "apis")) \/ DictRaises(Section(D, "opcodes"))
    THEN None
    ELSE Returned([f \in TrainingColumnSet |-> TrainValue(D, f)])

\* -- MalwarePredictor.extract_features (inference) -------------------------

\* feat_name.startswith(prefix + '_'), prefix a sequence of parts: there is
\* text (possibly empty) after the underscore
StartsWith(f, prefix) ==
    Len(f) > Len(prefix) /\ SubSeq(f, 1, Len(prefix)) = prefix

\* feat_name.replace('opcode_', '').replace('_count', ''): the parts left
OpcodeParts(f) == SelectSeq(Tail(f), LAMBDA part : part # "count")

\* ir[section] succeeds; it raises KeyError when the document lacks the section
Subscript(D, name) == name \in D.has

\* one iteration of `for feat_name in feature_names`: does it raise
SlotRaises(D, f) ==
    LET apis == Section(D, "apis")
        opcodes == Section(D, "opcodes")
        sorted_apis == SortedByCount(apis)
        total_opcodes == SumCounts(opcodes)
    IN  CASE StartsWith(f, <<"uses">>) -> ~Subscript(D, "behavior")
          [] StartsWith(f, <<"cfg">>) -> ~Subscript(D, "cfg")
          [] f = <<"num", "unique", "apis">> -> FALSE
          [] f = <<"total", "api", "calls">> -> FALSE
          [] StartsWith(f, <<"top", "api">>) ->
               \/ ~IsNumeral(f[Len(f) - 1])
               \/ LET idx == int(f[Len(f) - 1]) - 1
                  IN  /\ idx < Len(sorted_apis)
                      /\ \/ idx < 0 /\ Len(sorted_apis) = 0
                         \/ Len(sorted_apis) > 0 /\
                            "count" \notin DOMAIN
                               sorted_apis[IF idx < 0 THEN Len(sorted_apis)
                                           ELSE idx + 1]
          [] f = <<"num", "unique", "opcodes">> -> FALSE
          [] f = <<"total", "opcodes">> -> FALSE
          [] StartsWith(f, <<"opcode">>) -> DictRaises(opcodes)
          [] f \in {<<"call", "ratio">>, <<"jmp", "ratio">>} ->
               total_opcodes > 0 /\ DictRaises(opcodes)
          [] OTHER -> FALSE

\* the value that iteration appends when it does not raise
SlotValue(D, f) ==
    LET apis == Section(D, "apis")
        opcodes == Section(D, "opcodes")
        sorted_apis == SortedByCount(apis)
        total_opcodes == SumCounts(opcodes)
        opcode_dict == NameCountDict(opcodes)
    IN  CASE StartsWith(f, <<"uses">>) ->
               Num(Get(D.behavior, <<"uses">> \o Tail(f), 0))
          [] StartsWith(f, <<"cfg">>) -> Num(Get(D.cfg, Tail(f), 0))
          [] f = <<"num", "unique", "apis">> -> Num(Len(apis))
          [] f = <<"total", "api", "calls">> -> Num(SumCounts(apis))
          [] StartsWith(f, <<"top", "api">>) ->
               LET idx == int(f[Len(f) - 1]) - 1
               IN  IF idx < Len(sorted_apis)
                   THEN Num(sorted_apis[IF idx < 0 THEN Len(sorted_apis)
                                        ELSE idx + 1].count)
                   ELSE Num(0)
          [] f = <<"num", "unique", "opcodes">> -> Num(Len(opcodes))
          [] f = <<"total", "opcodes">> -> Num(total_opcodes)
          [] StartsWith(f, <<"opcode">>) ->
               Num(Get(opcode_dict,
                       IF Len(OpcodeParts(f)) = 1 THEN upper(OpcodeParts(f)[1])
                       ELSE "?", 0))
          [] f = <<"call", "ratio">> ->
               IF total_opcodes > 0
               THEN Quot(Get(opcode_dict, "CALL", 0), total_opcodes) ELSE Num(0)
          [] f = <<"jmp", "ratio">> ->
               IF total_opcodes > 0
               THEN Quot(Get(opcode_dict, "JMP", 0), total_opcodes) ELSE Num(0)
          [] f = <<"api", "to", "opcode", "ratio">> ->
               IF total_opcodes > 0
               THEN Quot(SumCounts(apis), total_opcodes) ELSE Num(0)
          [] OTHER -> Num(0)

\* the whole function: one value per name of the schema, in its order, or
\* None when an iteration raised
extract_features(D, S) ==
    IF \E k \in 1..Len(S) : SlotRaises(D, S[k])
    THEN None
    ELSE Returned([k \in 1..Len(S) |-> SlotValue(D, S[k])])

\* ---- the IR documents and schemas tried ----------------------------------
MaxApis == 2         \* entries in the apis list of a document
MaxOpcodes == 2      \* entries in the opcodes list of a document
MaxSchemaLen == 2    \* names in a schema read from the model metadata

SeqsUpTo(S, n) == UNION {[1..k -> S] : k \in 0..n}

\* entries of the apis list: a repeated name, equal and different counts,
\* and an entry without a count
ApiEntries ==
    {[name |-> "CreateFileA", count |-> 1], [name |-> "CreateFileA", count |-> 2],
     [name |-> "connect", count |-> 2], [name |-> "CreateFileA"]}
\* entries of the opcodes list
OpcodeEntries ==
    {[name |-> "CALL", count |-> 2], [name |-> "JMP", count |-> 1],
     [name |-> "CALL"]}
\* the behavior object: with or without the uses_network flag
BehaviorObjects == {[k \in K |-> 1] : K \in SUBSET {<<"uses", "network">>}}
\* the cfg object: any subset of two of its scalars
CfgObjects ==
    {[k \in K |-> 3] :
       K \in SUBSET {<<"num", "blocks">>, <<"cyclomatic", "complexity">>}}

SectionNames == {"behavior", "cfg", "apis", "opcodes"}

\* the documents json.load can return: each section present or absent (an
\* absent section is held empty)
Documents ==
    {D \in [has : SUBSET SectionNames, behavior : BehaviorObjects,
            cfg : CfgObjects, apis : SeqsUpTo(ApiEntries, MaxApis),
            opcodes : SeqsUpTo(OpcodeEntries, MaxOpcodes)] :
       /\ "behavior" \notin D.has => DOMAIN D.behavior = {}
       /\ "cfg" \notin D.has => DOMAIN D.cfg = {}
       /\ "apis" \notin D.has => Len(D.apis) = 0
       /\ "opcodes" \notin D.has => Len(D.opcodes) = 0}

NoDocument == [has |-> {}, behavior |-> <<>>, cfg |-> <<>>, apis |-> <<>>,
               opcodes |-> <<>>]

\* names a metadata file can carry: one of each kind the inference path
\* decodes, and one it does not recognise
SchemaNames ==
    {<<"uses", "network">>, <<"cfg", "cyclomatic", "complexity">>,
     <<"top", "api", "1", "count">>, <<"opcode", "call", "count">>,
     <<"call", "ratio">>, <<"entropy">>}
Schemas == SeqsUpTo(SchemaNames, MaxSchemaLen)

\* ---- state --------------------------------------------------------------
VARIABLES
    content,          \* item -> byte content of the sample file
    valid,            \* item -> the path exists and ends in .asm
    dry_run,          \* args.dry_run
    reported,         \* the input -> output mappings the dry run has printed
    exitCode,         \* the status the process exited with (-1: still running)
    parallel,         \* process_batch argument
    stop_on_error,    \* process_batch argument
    update_catalog,   \* process_batch argument (not --no-catalog-update)
    catalogExists,    \* Path(catalog_path).exists()
    catalog,          \* the lines of catalog.csv
    success_count,    \* self.success_count
    failure_count,    \* self.failure_count
    pc,               \* item -> position of its process_sample call
    outcome,          \* item -> how its run_parser call ended ("none": not yet, or returned)
    result,           \* item -> what process_sample returned: "none", "true", "false", "raised"
    sha256,           \* item -> local sha256 of update_catalog
    file_exists,      \* item -> local file_exists of update_catalog
    existing_hashes,  \* item -> local existing_hashes of update_catalog
    tmp,              \* item -> counter value loaded by `+= 1`
    mainPc,           \* position of the main thread
    seqIdx,           \* index of the sequential loop
    yielded,          \* futures as_completed has yielded
    mainTmp,          \* counter value loaded by the main thread's `+= 1`
    faults,           \* file-system faults injected so far
    readFailed,       \* items whose scan of the catalog hit a read error
    \* the feature extractors (src/data/models)
    ir,               \* the IR document json.load returned
    stage,            \* how far the train -> metadata -> predict pipeline is
    extracted,        \* what extract_features_from_ir returned for ir
    feature_names,    \* metadata['feature_names'], the schema
    features,         \* what MalwarePredictor.extract_features returned
    \* one catalog entry (update_catalog, guess_label_from_path)
    label,            \* args.label as argparse delivers it
    label_given,      \* --label was on the command line
    sample_path,      \* the components of the sample's path
    entry,            \* the catalog row written for the sample
    \* file discovery (find_asm_files)
    tree,             \* the directory entries under the input path
    recursive,        \* the recursive argument
    found,            \* what the calls of find_asm_files returned, in order
    \* the feature dataset (extract_all_features)
    artifacts,        \* catalog row -> what its ir_path holds
    idx,              \* index of the catalog row the loop is at
    features_list,    \* the rows collected so far
    \* history variables (observations only; no action reads them)
    anyFailed,        \* some item of this run has ended Failed
    notStartedAtFail, \* the items not yet started when the first one failed
    stopTriggered,    \* stop-on-error has requested cancellation in this run
    inFlightAtStop,   \* the items in flight when it did
    catalogAtStop     \* the catalog lines when it did

feat == <<ir, stage, extracted, feature_names, features>>

batch == <<content, valid, dry_run, reported, exitCode, readFailed, parallel, stop_on_error, update_catalog, catalogExists,
          catalog, success_count, failure_count, pc, outcome, result, sha256,
          file_exists, existing_hashes, tmp, mainPc, seqIdx, yielded, mainTmp,
          faults, anyFailed, notStartedAtFail, stopTriggered,
          inFlightAtStop, catalogAtStop>>

entryv == <<label, label_given, sample_path, entry>>

findv == <<tree, recursive, found>>

datav == <<artifacts, idx, features_list>>

aux == <<entryv, findv, datav>>

vars == <<batch, feat, aux>>

inputs == <<content, valid, dry_run, parallel, stop_on_error, update_catalog>>
outv == <<reported, exitCode>>
locals == <<sha256, file_exists, existing_hashes, tmp>>
counters == <<success_count, failure_count>>
file == <<catalogExists, catalog>>
mainv == <<mainPc, seqIdx, yielded, mainTmp>>
stopHist == <<stopTriggered, inFlightAtStop, catalogAtStop>>
failHist == <<anyFailed, notStartedAtFail>>

NoDigest == <<"none", 0>>

\* positions of an item inside update_catalog
UcPcs == {"uc_hash", "uc_read", "uc_hdr_check", "uc_hdr_write", "uc_append"}
\* positions of an item between being taken by a thread and returning
InFlightPcs == {"run_parser", "cnt_load", "cnt_store"} \cup UcPcs

InFlight(i) == pc[i] \in InFlightPcs
Analyzing(i) == pc[i] = "run_parser"
NumInFlight == Cardinality({i \in Items : InFlight(i)})

\* the samples main() hands to process_batch: the lines of the batch file
\* that name an existing .asm file, in file order
Samples == SelectSeq([i \in Items |-> i], LAMBDA i : valid[i])
SampleSet == {i \in Items : valid[i]}

\* process_sample / the dry run: sample.stem + "_ir.json"
IrName(i) == <<i, "_ir.json">>

\* the feature extractors are not running
FeatIdle ==
    /\ ir = NoDocument
    /\ stage = "idle"
    /\ extracted = None
    /\ feature_names = <<>>
    /\ features = None

InitBatch ==
    /\ valid \in [Items -> BOOLEAN]
    /\ content \in [Items -> Contents]
    /\ \A i \in Items : ~valid[i] => content[i] = 1
    /\ dry_run \in BOOLEAN
    /\ reported = <<>>
    /\ exitCode = -1
    /\ readFailed = {}
    /\ parallel \in 0..MaxParallel
    /\ stop_on_error \in BOOLEAN
    /\ update_catalog \in BOOLEAN
    /\ catalogExists \in BOOLEAN
    /\ catalog = IF catalogExists THEN EarlierCatalog ELSE <<>>
    /\ success_count = 0
    /\ failure_count = 0
    /\ pc = [i \in Items |-> "pending"]
    /\ outcome = [i \in Items |-> "none"]
    /\ result = [i \in Items |-> "none"]
    /\ sha256 = [i \in Items |-> NoDigest]
    /\ file_exists = [i \in Items |-> FALSE]
    /\ existing_hashes = [i \in Items |-> {}]
    /\ tmp = [i \in Items |-> 0]
    /\ mainPc = "main"
    /\ seqIdx = 1
    /\ yielded = {}
    /\ mainTmp = 0
    /\ faults = 0
    /\ anyFailed = FALSE
    /\ notStartedAtFail = {}
    /\ stopTriggered = FALSE
    /\ inFlightAtStop = {}
    /\ catalogAtStop = <<>>

\* no catalog entry is being written
NoEntry == [by |-> "none", read |-> FALSE, appended |-> FALSE, label |-> "",
            notes |-> <<>>]

EntryIdle ==
    /\ label = "unknown"
    /\ label_given = FALSE
    /\ sample_path = <<>>
    /\ entry = NoEntry

\* no discovery is running
FindIdle ==
    /\ tree = [kind |-> "absent", name |-> <<"", "">>, entries |-> {}]
    /\ recursive = FALSE
    /\ found = <<>>

\* no feature dataset is being built
DataIdle ==
    /\ artifacts = <<>>
    /\ idx = 0
    /\ features_list = <<>>

AuxIdle == EntryIdle /\ FindIdle /\ DataIdle

\* no batch is running: main() found nothing to process
BatchIdle ==
    /\ InitBatch
    /\ valid = [i \in Items |-> FALSE]
    /\ ~dry_run /\ parallel = 0 /\ ~stop_on_error /\ ~update_catalog
    /\ ~catalogExists

Init == InitBatch /\ FeatIdle /\ AuxIdle


\* ---- process_sample, one item -------------------------------------------

\* the local `success` of process_sample, once run_parser has returned
Success(i) == RunParserResult(outcome[i])

\* an item returns from process_sample (or raises out of it): its locals die;
\* the first item of the run to end Failed fixes notStartedAtFail
Finish(i, r) ==
    /\ pc' = [pc EXCEPT ![i] = "done"]
    /\ result' = [result EXCEPT ![i] = r]
    /\ outcome' = [outcome EXCEPT ![i] = "none"]
    /\ sha256' = [sha256 EXCEPT ![i] = NoDigest]
    /\ file_exists' = [file_exists EXCEPT ![i] = FALSE]
    /\ existing_hashes' = [existing_hashes EXCEPT ![i] = {}]
    /\ tmp' = [tmp EXCEPT ![i] = 0]
    /\ IF r # "true" /\ ~anyFailed
       THEN /\ anyFailed' = TRUE
            /\ notStartedAtFail' = {j \in Items : pc[j] = "pending"}
       ELSE UNCHANGED failHist

\* an exception leaves process_sample: a worker thread stores it in the
\* future; in the sequential loop nothing catches it and the process dies
Raise(i) ==
    /\ Finish(i, "raised")
    /\ mainPc' = IF parallel > 1 THEN mainPc ELSE "crashed"
    /\ UNCHANGED <<seqIdx, yielded, mainTmp>>

\* ThreadPoolExecutor(max_workers=parallel): a thread is free to take an item
WorkerAvailableUnbounded == TRUE
WorkerAvailable == NumInFlight < parallel

\* a pool thread takes the oldest queued work item and calls process_sample
WorkerStartCatalogFirst(i) ==
    /\ parallel > 1
    /\ mainPc \in {"par_loop", "par_exc_store"}
    /\ pc[i] = "pending"
    /\ \A j \in Items : j < i => pc[j] # "pending"
    /\ WorkerAvailable
    /\ pc' = [pc EXCEPT ![i] = IF update_catalog THEN "uc_hash" ELSE "run_parser"]
    /\ UNCHANGED <<feat, aux, inputs, outv, readFailed, file, counters, outcome, result, locals, mainv,
                   faults, failHist, stopHist>>
WorkerStart(i) ==
    /\ parallel > 1
    /\ mainPc \in {"par_loop", "par_exc_store"}
    /\ pc[i] = "pending"
    /\ \A j \in Items : j < i => pc[j] # "pending"
    /\ WorkerAvailable
    /\ pc' = [pc EXCEPT ![i] = "run_parser"]
    /\ UNCHANGED <<feat, aux, inputs, outv, readFailed, file, counters, outcome, result, locals, mainv,
                   faults, failHist, stopHist>>

\* a loop that calls process_sample for any sample not yet started
SeqStartAny ==
    /\ parallel <= 1
    /\ mainPc = "seq_loop"
    /\ \E k \in 1..Len(Samples) :
         /\ pc[Samples[k]] = "pending"
         /\ pc' = [pc EXCEPT ![Samples[k]] = "run_parser"]
    /\ UNCHANGED <<feat, aux, inputs, outv, readFailed, file, counters, outcome, result, locals, mainv,
                   faults, failHist, stopHist>>

\* the sequential loop calls process_sample for the next sample
SeqStart ==
    /\ parallel <= 1
    /\ mainPc = "seq_loop"
    /\ seqIdx \in 1..Len(Samples)
    /\ pc[Samples[seqIdx]] = "pending"
    /\ pc' = [pc EXCEPT ![Samples[seqIdx]] = "run_parser"]
    /\ UNCHANGED <<feat, aux, inputs, outv, readFailed, file, counters, outcome, result, locals, mainv,
                   faults, failHist, stopHist>>

\* process_sample: `if success: if update_catalog: self.update_catalog(...)`
CallsUpdateCatalogAlways(success) == update_catalog
CallsUpdateCatalog(success) == success /\ update_catalog

\* a run_parser whose failure puts the item back in the queue
RunParserEndRequeues(i) ==
    /\ pc[i] = "run_parser"
    /\ \E o \in ParserOutcomes :
         /\ outcome' = [outcome EXCEPT ![i] = IF RunParserResult(o) THEN o ELSE "none"]
         /\ pc' = [pc EXCEPT ![i] =
                     IF ~RunParserResult(o) THEN "pending"
                     ELSE IF CallsUpdateCatalog(RunParserResult(o))
                     THEN "uc_hash" ELSE "cnt_load"]
    /\ UNCHANGED <<feat, aux, inputs, outv, readFailed, file, counters, result, locals, mainv, faults,
                   failHist, stopHist>>

\* run_parser returns: the external tool has ended in one of its outcomes
RunParserEnd(i) ==
    /\ pc[i] = "run_parser"
    /\ \E o \in ParserOutcomes :
         /\ outcome' = [outcome EXCEPT ![i] = o]
         /\ pc' = [pc EXCEPT ![i] =
                     IF CallsUpdateCatalog(RunParserResult(o))
                     THEN "uc_hash" ELSE "cnt_load"]
    /\ UNCHANGED <<feat, aux, inputs, outv, readFailed, file, counters, result, locals, mainv, faults,
                   failHist, stopHist>>

\* update_catalog up to `file_exists = Path(self.catalog_path).exists()`:
\* hash the sample (an unreadable sample gives HASH_ERROR), derive label and
\* notes, look whether the catalog file exists.  `not file_exists or ...`
\* needs no second look at the file when file_exists is False.
UcHash(i) ==
    /\ pc[i] = "uc_hash"
    /\ \E readable \in BOOLEAN :
         /\ readable \/ faults < MaxFaults
         /\ faults' = IF readable THEN faults ELSE faults + 1
         /\ sha256' = [sha256 EXCEPT ![i] = calculate_sha256(content[i], readable)]
    /\ file_exists' = [file_exists EXCEPT ![i] = catalogExists]
    /\ pc' = [pc EXCEPT ![i] = IF catalogExists THEN "uc_read" ELSE "uc_hdr_write"]
    /\ UNCHANGED <<feat, aux, inputs, outv, readFailed, file, counters, outcome, result, existing_hashes,
                   tmp, mainv, failHist, stopHist>>

\* `if file_exists: try: ... existing_hashes.add(...) except Exception: pass`
UcReadFatal(i) ==
    /\ pc[i] = "uc_read"
    /\ \E readOk \in BOOLEAN :
         IF readOk
         THEN /\ existing_hashes' = [existing_hashes EXCEPT ![i] = ReadHashes(catalog)]
              /\ pc' = [pc EXCEPT ![i] = "uc_hdr_check"]
              /\ UNCHANGED <<readFailed, outcome, result, sha256, file_exists,
                             tmp, mainv, faults, failHist>>
         ELSE /\ faults < MaxFaults
              /\ faults' = faults + 1
              /\ readFailed' = readFailed \cup {i}
              /\ Raise(i)
    /\ UNCHANGED <<feat, aux, inputs, outv, file, counters, stopHist>>
UcRead(i) ==
    /\ pc[i] = "uc_read"
    /\ \E readOk \in BOOLEAN :
         /\ readOk \/ faults < MaxFaults
         /\ faults' = IF readOk THEN faults ELSE faults + 1
         /\ existing_hashes' = [existing_hashes EXCEPT ![i] =
                                  IF readOk THEN ReadHashes(catalog) ELSE {}]
         /\ readFailed' = IF readOk THEN readFailed ELSE readFailed \cup {i}
    /\ pc' = [pc EXCEPT ![i] = "uc_hdr_check"]
    /\ UNCHANGED <<feat, aux, inputs, outv, file, counters, outcome, result, sha256,
                   file_exists, tmp, mainv, failHist, stopHist>>

\* `if not file_exists or Path(self.catalog_path).stat().st_size == 0`
UcHdrCheck(i) ==
    /\ pc[i] = "uc_hdr_check"
    /\ pc' = [pc EXCEPT ![i] =
                IF ~file_exists[i] \/ Len(catalog) = 0
                THEN "uc_hdr_write" ELSE "uc_append"]
    /\ UNCHANGED <<feat, aux, inputs, outv, readFailed, file, counters, outcome, result, locals, mainv,
                   faults, failHist, stopHist>>

\* `with open(self.catalog_path, 'w', newline='') as f: writer.writerow(header)`
\* mode 'w' truncates whatever the file holds
UcHdrWrite(i) ==
    /\ pc[i] = "uc_hdr_write"
    /\ catalogExists' = TRUE
    /\ catalog' = <<HeaderRow>>
    /\ pc' = [pc EXCEPT ![i] = "uc_append"]
    /\ UNCHANGED <<feat, aux, inputs, outv, readFailed, counters, outcome, result, locals, mainv, faults,
                   failHist, stopHist>>

\* the same block when it fails: either open() raises and the file is as
\* it was, or the write raises after the open and the file is left
\* truncated; the OSError leaves update_catalog and process_sample
UcHdrWriteFails(i) ==
    /\ pc[i] = "uc_hdr_write"
    /\ faults < MaxFaults
    /\ faults' = faults + 1
    /\ \E opened \in BOOLEAN :
         IF opened
         THEN catalogExists' = TRUE /\ catalog' = <<>>
         ELSE UNCHANGED file
    /\ Raise(i)
    /\ UNCHANGED <<feat, aux, inputs, outv, readFailed, counters, stopHist>>

\* an append that does not look at existing_hashes
UcAppendNoDedup(i) ==
    /\ pc[i] = "uc_append"
    /\ catalog' = Append(catalog, DataRow(sha256[i], i))
    /\ catalogExists' = catalogExists
    /\ pc' = [pc EXCEPT ![i] = "cnt_load"]
    /\ UNCHANGED <<feat, aux, inputs, outv, readFailed, counters, outcome, result, locals, mainv, faults,
                   failHist, stopHist>>

\* `if sha256 not in existing_hashes: with open(..., 'a') ...: writer.writerow(row)`
UcAppend(i) ==
    /\ pc[i] = "uc_append"
    /\ catalog' = IF sha256[i] \notin existing_hashes[i]
                  THEN Append(catalog, DataRow(sha256[i], i))
                  ELSE catalog
    /\ catalogExists' = catalogExists
    /\ pc' = [pc EXCEPT ![i] = "cnt_load"]
    /\ UNCHANGED <<feat, aux, inputs, outv, readFailed, counters, outcome, result, locals, mainv, faults,
                   failHist, stopHist>>

\* the append when open(..., 'a') fails: nothing is written, the OSError
\* leaves update_catalog and process_sample
UcAppendFails(i) ==
    /\ pc[i] = "uc_append"
    /\ sha256[i] \notin existing_hashes[i]
    /\ faults < MaxFaults
    /\ faults' = faults + 1
    /\ Raise(i)
    /\ UNCHANGED <<feat, aux, inputs, outv, readFailed, file, counters, stopHist>>

\* `self.success_count += 1` / `self.failure_count += 1`: the load
CntLoad(i) ==
    /\ pc[i] = "cnt_load"
    /\ tmp' = [tmp EXCEPT ![i] =
                 IF Success(i) THEN success_count ELSE failure_count]
    /\ pc' = [pc EXCEPT ![i] = "cnt_store"]
    /\ UNCHANGED <<feat, aux, inputs, outv, readFailed, file, counters, outcome, result, sha256,
                   file_exists, existing_hashes, mainv, faults, failHist,
                   stopHist>>

\* the store of the incremented value, then `return success`
CntStore(i) ==
    /\ pc[i] = "cnt_store"
    /\ IF Success(i)
       THEN /\ success_count' = tmp[i] + 1
            /\ failure_count' = failure_count
            /\ Finish(i, "true")
       ELSE /\ failure_count' = tmp[i] + 1
            /\ success_count' = success_count
            /\ Finish(i, "false")
    /\ UNCHANGED <<feat, aux, inputs, outv, readFailed, file, mainv, faults, stopHist>>

\* ---- main() before process_batch -----------------------------------------

\* `if args.dry_run: ...; sys.exit(0)`: the dry run ends main() before
\* process_batch is reached
DryRunFallsThrough(d) == FALSE
DryRunReturns(d) == d

\* main() in --batch mode up to the call of process_batch: a line that does
\* not name an existing .asm file is skipped with a warning; no sample left:
\* exit 1; --dry-run: print one `name -> <out>/<stem>_ir.json` line per
\* sample and exit 0
Main ==
    /\ mainPc = "main"
    /\ pc' = [i \in Items |-> IF valid[i] THEN "pending" ELSE "skipped"]
    /\ IF Len(Samples) = 0
       THEN /\ mainPc' = "exited"
            /\ exitCode' = 1
            /\ reported' = reported
       ELSE IF dry_run
       THEN /\ reported' = [k \in 1..Len(Samples) |->
                              <<Samples[k], IrName(Samples[k])>>]
            /\ IF DryRunReturns(dry_run)
               THEN mainPc' = "exited" /\ exitCode' = 0
               ELSE mainPc' = "start" /\ exitCode' = exitCode
       ELSE /\ mainPc' = "start"
            /\ UNCHANGED outv
    /\ UNCHANGED <<feat, aux, inputs, readFailed, file, counters, outcome, result, locals,
                   seqIdx, yielded, mainTmp, faults, failHist, stopHist>>

\* ---- process_batch, the main thread --------------------------------------

\* `if parallel > 1:` submit every sample to the pool, else loop over them
Start ==
    /\ mainPc = "start"
    /\ mainPc' = IF parallel > 1 THEN "par_loop" ELSE "seq_loop"
    /\ UNCHANGED <<feat, aux, inputs, outv, readFailed, file, counters, pc, outcome, result, locals,
                   seqIdx, yielded, mainTmp, faults, failHist, stopHist>>

\* executor.shutdown(wait=False, cancel_futures=True); break
\* (every work item still in the queue is cancelled)
CancelAndBreak ==
    /\ pc' = [j \in Items |-> IF pc[j] = "pending" THEN "cancelled" ELSE pc[j]]
    /\ mainPc' = "par_exit"
    /\ stopTriggered' = TRUE
    /\ inFlightAtStop' = {j \in Items : InFlight(j)}
    /\ catalogAtStop' = catalog

\* whether the loop stops after an item that did (not) fail
StopsOn(failed) == failed /\ stop_on_error

\* as_completed yields a finished future whose result() returns normally
AsCompleted(i) ==
    /\ mainPc = "par_loop"
    /\ i \notin yielded
    /\ pc[i] = "done"
    /\ result[i] \in {"true", "false"}
    /\ yielded' = yielded \cup {i}
    /\ IF StopsOn(result[i] = "false")
       THEN CancelAndBreak
       ELSE UNCHANGED <<pc, mainPc, stopHist>>
    /\ UNCHANGED <<feat, aux, inputs, outv, readFailed, file, counters, outcome, result, locals, seqIdx,
                   mainTmp, faults, failHist>>

\* as_completed yields a future whose result() raises: the except branch
\* starts `self.failure_count += 1` (the load)
AsCompletedRaised(i) ==
    /\ mainPc = "par_loop"
    /\ i \notin yielded
    /\ pc[i] = "done"
    /\ result[i] = "raised"
    /\ yielded' = yielded \cup {i}
    /\ mainTmp' = failure_count
    /\ mainPc' = "par_exc_store"
    /\ UNCHANGED <<feat, aux, inputs, outv, readFailed, file, counters, pc, outcome, result, locals,
                   seqIdx, faults, failHist, stopHist>>

\* the store of that increment, then `if stop_on_error: shutdown; break`
ParExcStore ==
    /\ mainPc = "par_exc_store"
    /\ failure_count' = mainTmp + 1
    /\ mainTmp' = 0
    /\ IF StopsOn(TRUE)
       THEN CancelAndBreak
       ELSE /\ mainPc' = "par_loop"
            /\ UNCHANGED <<pc, stopHist>>
    /\ UNCHANGED <<feat, aux, inputs, outv, readFailed, file, success_count, outcome, result, locals,
                   seqIdx, yielded, faults, failHist>>

\* as_completed is exhausted: every future has been yielded
LoopEnd ==
    /\ mainPc = "par_loop"
    /\ yielded = SampleSet
    /\ mainPc' = "par_exit"
    /\ UNCHANGED <<feat, aux, inputs, outv, readFailed, file, counters, pc, outcome, result, locals,
                   seqIdx, yielded, mainTmp, faults, failHist, stopHist>>

\* leaving the `with` block: shutdown(wait=True) joins the pool threads,
\* then the summary is printed and process_batch returns
ParExit ==
    /\ mainPc = "par_exit"
    /\ \A i \in Items : ~InFlight(i) /\ pc[i] # "pending"
    /\ mainPc' = "returned"
    /\ UNCHANGED <<feat, aux, inputs, outv, readFailed, file, counters, pc, outcome, result, locals,
                   seqIdx, yielded, mainTmp, faults, failHist, stopHist>>

\* the sequential loop after process_sample returned:
\* `if not success and stop_on_error: break`, else the next sample
SeqAfter ==
    /\ parallel <= 1
    /\ mainPc = "seq_loop"
    /\ seqIdx \in 1..Len(Samples)
    /\ pc[Samples[seqIdx]] = "done"
    /\ IF StopsOn(result[Samples[seqIdx]] = "false")
       THEN /\ mainPc' = "returned"
            /\ seqIdx' = seqIdx
            /\ stopTriggered' = TRUE
            /\ inFlightAtStop' = {}
            /\ catalogAtStop' = catalog
       ELSE /\ mainPc' = IF seqIdx = Len(Samples) THEN "returned" ELSE "seq_loop"
            /\ seqIdx' = seqIdx + 1
            /\ UNCHANGED stopHist
    /\ UNCHANGED <<feat, aux, inputs, outv, readFailed, file, counters, pc, outcome, result, locals,
                   yielded, mainTmp, faults, failHist>>

\* ---- main() after process_batch ------------------------------------------

\* `if processor.failure_count > 0: sys.exit(1) else: sys.exit(0)`
Exit ==
    /\ mainPc = "returned"
    /\ mainPc' = "exited"
    /\ exitCode' = IF failure_count > 0 THEN 1 ELSE 0
    /\ UNCHANGED <<feat, aux, inputs, reported, readFailed, file, counters, pc, outcome,
                   result, locals, seqIdx, yielded, mainTmp, faults, failHist,
                   stopHist>>

\* an exception nothing catches ends the interpreter with status 1
Traceback ==
    /\ mainPc = "crashed"
    /\ mainPc' = "exited"
    /\ exitCode' = 1
    /\ UNCHANGED <<feat, aux, inputs, reported, readFailed, file, counters, pc, outcome,
                   result, locals, seqIdx, yielded, mainTmp, faults, failHist,
                   stopHist>>

\* Ctrl-C during the sequential loop: KeyboardInterrupt is no Exception, so
\* nothing in process_sample catches it; main() prints the summary and
\* calls sys.exit(130).  The sample in hand stays where it was.
Interrupt ==
    /\ parallel <= 1
    /\ mainPc = "seq_loop"
    /\ mainPc' = "exited"
    /\ exitCode' = 130
    /\ UNCHANGED <<feat, aux, inputs, reported, readFailed, file, counters, pc, outcome,
                   result, locals, seqIdx, yielded, mainTmp, faults, failHist,
                   stopHist>>

Next ==
    \/ Main
    \/ Exit
    \/ Traceback
    \/ Interrupt
    \/ Start
    \/ SeqStart
    \/ SeqAfter
    \/ LoopEnd
    \/ ParExcStore
    \/ ParExit
    \/ \E i \in Items :
         \/ WorkerStart(i)
         \/ RunParserEnd(i)
         \/ UcHash(i)
         \/ UcRead(i)
         \/ UcHdrCheck(i)
         \/ UcHdrWrite(i)
         \/ UcHdrWriteFails(i)
         \/ UcAppend(i)
         \/ UcAppendFails(i)
         \/ CntLoad(i)
         \/ CntStore(i)
         \/ AsCompleted(i)
         \/ AsCompletedRaised(i)

Spec == Init /\ [][Next]_vars

\* ---- the feature pipeline: extract, train, predict -----------------------

\* no batch is running: main() found nothing to process
InitFeat ==
    /\ InitBatch
    /\ valid = [i \in Items |-> FALSE]
    /\ ~dry_run /\ parallel = 0 /\ ~stop_on_error /\ ~update_catalog
    /\ ~catalogExists
    /\ ir \in Documents
    /\ stage = "ir"
    /\ extracted = None
    /\ feature_names = <<>>
    /\ features = None
    /\ AuxIdle

\* extract_all_features calls extract_features_from_ir on the document
ExtractFeaturesFromIr ==
    /\ stage = "ir"
    /\ extracted' = extract_features_from_ir(ir)
    /\ stage' = "extracted"
    /\ UNCHANGED <<batch, aux, ir, feature_names, features>>

\* prepare_data: feature_names is the columns of the feature table but
\* sha256, label and label_binary, in the table's order; the metadata file
\* carries them to the predictor
prepare_data ==
    /\ stage = "extracted"
    /\ feature_names' = TrainingColumns
    /\ stage' = "schema"
    /\ UNCHANGED <<batch, aux, ir, extracted, features>>

\* load_model reads a metadata file that carries some other schema
LoadMetadata(S) ==
    /\ stage = "extracted"
    /\ feature_names' = S
    /\ stage' = "schema"
    /\ UNCHANGED <<batch, aux, ir, extracted, features>>

\* MalwarePredictor.extract_features on the same document
ExtractFeatures ==
    /\ stage = "schema"
    /\ features' = extract_features(ir, feature_names)
    /\ stage' = "predicted"
    /\ UNCHANGED <<batch, aux, ir, extracted, feature_names>>

NextFeat ==
    \/ ExtractFeaturesFromIr
    \/ prepare_data
    \/ \E S \in Schemas : LoadMetadata(S)
    \/ ExtractFeatures

SpecFeat == InitFeat /\ [][NextFeat]_vars


\* ---- one catalog entry: label and notes ---------------------------------

MaxDirs == 1         \* directories between the input root and the sample

\* str.lower() of a part of a path component
LowerWord(t) == IF t = "Malware" THEN "malware" ELSE t

\* path components, each a sequence of the parts its text is made of: the
\* words the three label rules look for, one in another case, one inside a
\* longer name, and a name that has none of them
DirNames ==
    {<<"samples">>, <<"Malware">>, <<"malicious">>, <<"benign">>, <<"clean">>,
     <<"system32">>, <<"dummy">>, <<"old", "malware">>}
FileNames == {<<"x", ".asm">>, <<"benign", "test", ".asm">>}
SamplePaths ==
    {dirs \o <<name>> : dirs \in SeqsUpTo(DirNames, MaxDirs), name \in FileNames}

\* `word in str(sample_path).lower()`: the word occurs somewhere in the text
\* of the path (no word holds a path separator, so inside one component)
InPathStr(word, path) ==
    \E c \in 1..Len(path) : \E k \in 1..Len(path[c]) : LowerWord(path[c][k]) = word

\* `word in [x.lower() for x in p.parts]`: a whole component is the word
InParts(word, path) ==
    \E c \in 1..Len(path) : Len(path[c]) = 1 /\ LowerWord(path[c][1]) = word

\* the values --label can carry: argparse takes any string (no choices)
LabelArgs == {"unknown", "malicious", "benign", "dummy", "foo"}

\* meef_cli.py: `if label == "unknown":` infer from the path
CliLabel(l, path) ==
    IF l = "unknown"
    THEN IF InPathStr("malicious", path) \/ InPathStr("malware", path) THEN "malicious"
         ELSE IF InPathStr("benign", path) \/ InPathStr("clean", path) THEN "benign"
         ELSE l
    ELSE l

\* meef.py: the path decides whatever the label parameter holds
MeefLabel(l, path) ==
    IF InPathStr("malicious", path) THEN "malicious"
    ELSE IF InPathStr("benign", path) THEN "benign"
    ELSE l

\* generate_catalog_full.py
guess_label_from_path(path) ==
    IF InParts("malicious", path) \/ InParts("malware", path) THEN "malicious"
    ELSE IF InParts("benign", path) \/ InParts("system32", path) THEN "benign"
    ELSE IF InParts("dummy", path) THEN "dummy"
    ELSE "unknown"

\* the flags update_catalog of meef_cli.py looks at, in its order, and the
\* token it notes for each
CliNoteFlags ==
    <<"network", "fileops", "registry", "memory", "injection", "crypto", "persist">>
\* the flags update_catalog of meef.py looks at
MeefNoteFlags == <<"network", "fileops", "injection", "crypto">>
NoteToken(flag) == IF flag = "persist" THEN "persistence" ELSE flag

\* `if behavior.get('uses_' + flag):` the key is there with a true value
Truthy(behavior, flag) == Get(behavior, <<"uses", flag>>, 0) # 0

\* behavior_notes after the `if ...: append(...)` lines over the flags
BehaviorNotes(behavior, flags) ==
    LET set == SelectSeq(flags, LAMBDA f : Truthy(behavior, f))
    IN  [k \in 1..Len(set) |-> NoteToken(set[k])]

\* ", ".join(tokens): the tokens with the separator between neighbours
RECURSIVE Join(_)
Join(tokens) ==
    IF Len(tokens) <= 1 THEN tokens
    ELSE <<Head(tokens), ", ">> \o Join(Tail(tokens))

\* `", ".join(behavior_notes) if behavior_notes else "none"`
Notes(behavior_notes) ==
    IF behavior_notes # <<>> THEN Join(behavior_notes) ELSE <<"none">>

BehaviorFlagSet == {BehaviorFlags[k] : k \in 1..Len(BehaviorFlags)}

\* behavior objects: the flags of K true; the others all absent, or all
\* there with a false value
EntryBehaviors ==
    {[k \in {<<"uses", f>> : f \in K} |-> 1] : K \in SUBSET BehaviorFlagSet}
      \cup {[k \in {<<"uses", f>> : f \in BehaviorFlagSet} |->
               IF k[2] \in K THEN 1 ELSE 0] : K \in SUBSET BehaviorFlagSet}

\* the IR documents update_catalog can find at ir_path: with a behavior
\* object, or without the section
EntryDocuments ==
    {[NoDocument EXCEPT !.has = {"behavior"}, !.behavior = b] : b \in EntryBehaviors}
      \cup {NoDocument}

\* main() of meef_cli.py has parsed its arguments; the sample is analysed
InitEntry ==
    /\ BatchIdle
    /\ ir \in EntryDocuments
    /\ stage = "idle" /\ extracted = None /\ feature_names = <<>> /\ features = None
    /\ FindIdle /\ DataIdle
    /\ label_given \in BOOLEAN
    /\ label \in IF label_given THEN LabelArgs ELSE {"unknown"}
    /\ sample_path \in SamplePaths
    /\ entry = NoEntry

\* what update_catalog of meef_cli.py does for a sample: the label and the
\* notes of its row, and whether the row is appended (`if sha256 not in
\* existing_hashes`); a document that cannot be opened or parsed leaves
\* behavior_notes empty
CliRow(l, path, D, readable, known) ==
    [by |-> "meef_cli",
     read |-> readable,
     appended |-> ~known,
     label |-> CliLabel(l, path),
     notes |-> Notes(IF readable
                     THEN BehaviorNotes(Section(D, "behavior"), CliNoteFlags)
                     ELSE <<>>)]

\* the same for update_catalog of meef.py
MeefRow(l, path, D, readable, known) ==
    [by |-> "meef",
     read |-> readable,
     appended |-> ~known,
     label |-> MeefLabel(l, path),
     notes |-> Notes(IF readable
                     THEN BehaviorNotes(Section(D, "behavior"), MeefNoteFlags)
                     ELSE <<>>)]

\* update_catalog of meef_cli.py, on a catalog that holds the sample's
\* fingerprint or does not
CliUpdateCatalog ==
    /\ entry.by = "none"
    /\ \E readable, known \in BOOLEAN :
         entry' = CliRow(label, sample_path, ir, readable, known)
    /\ UNCHANGED <<batch, feat, findv, datav, label, label_given, sample_path>>

\* update_catalog of meef.py; process_samples calls it without a label, and
\* meef.py has no --label option
MeefUpdateCatalog ==
    /\ entry.by = "none"
    /\ ~label_given
    /\ \E readable, known \in BOOLEAN :
         entry' = MeefRow(label, sample_path, ir, readable, known)
    /\ UNCHANGED <<batch, feat, findv, datav, label, label_given, sample_path>>

\* one row of generate_catalog_full.py: no label option, no look at the IR,
\* notes "", every file of the walk gets its row
GenerateCatalogRow ==
    /\ entry.by = "none"
    /\ ~label_given
    /\ entry' = [by |-> "generate_catalog_full",
                 read |-> FALSE,
                 appended |-> TRUE,
                 label |-> guess_label_from_path(sample_path),
                 notes |-> <<>>]
    /\ UNCHANGED <<batch, feat, findv, datav, label, label_given, sample_path>>

NextEntry ==
    \/ CliUpdateCatalog
    \/ MeefUpdateCatalog
    \/ GenerateCatalogRow

SpecEntry == InitEntry /\ [][NextEntry]_vars


\* ---- discovery: find_asm_files, find_samples ------------------------------

MaxCalls == 2        \* calls of a discovery function on the same directory

\* file and directory names, each <<stem, suffix>>, in the order Python
\* compares their texts ("B.ASM" < "a.asm" < ... < "sub")
NameOrder ==
    <<<<"B", ".ASM">>, <<"a", ".asm">>, <<"b", ".asm">>, <<"c", ".asm">>,
      <<"d", ".asm">>, <<"e", ".asm">>, <<"n", ".txt">>, <<"sub", "">>>>
Rank(n) == CHOOSE k \in 1..Len(NameOrder) : NameOrder[k] = n

\* Path.suffix.lower()
LowerSuffix(n) == IF n[2] = ".ASM" THEN ".asm" ELSE n[2]

\* the name matches the pattern "*.asm" (case matters on this platform)
MatchesAsm(n) == n[2] = ".asm"

\* Path.__lt__: the paths' components are compared one by one
RECURSIVE PathLess(_, _)
PathLess(p, q) ==
    IF p = <<>> THEN q # <<>>
    ELSE IF q = <<>> THEN FALSE
    ELSE IF Head(p) # Head(q) THEN Rank(Head(p)) < Rank(Head(q))
    ELSE PathLess(Tail(p), Tail(q))

\* sorted(paths)
RECURSIVE SortPaths(_)
SortPaths(P) ==
    IF P = {} THEN <<>>
    ELSE LET m == CHOOSE p \in P : \A q \in P \ {p} : PathLess(p, q)
         IN  <<m>> \o SortPaths(P \ {m})

\* what a directory can hold, as paths below it: files and directories at
\* the top, files inside the directories (one of them with the name of a
\* file at the top)
TreeEntries ==
    {[path |-> <<<<"b", ".asm">>>>, dir |-> FALSE],
     [path |-> <<<<"B", ".ASM">>>>, dir |-> FALSE],
     [path |-> <<<<"n", ".txt">>>>, dir |-> FALSE],
     [path |-> <<<<"d", ".asm">>>>, dir |-> TRUE],
     [path |-> <<<<"sub", "">>>>, dir |-> TRUE],
     [path |-> <<<<"d", ".asm">>, <<"e", ".asm">>>>, dir |-> FALSE],
     [path |-> <<<<"sub", "">>, <<"a", ".asm">>>>, dir |-> FALSE],
     [path |-> <<<<"sub", "">>, <<"c", ".asm">>>>, dir |-> FALSE],
     [path |-> <<<<"sub", "">>, <<"b", ".asm">>>>, dir |-> FALSE]}

\* the directories: every entry's parent directory is there too
Directories ==
    {[kind |-> "dir", name |-> <<"samples", "">>, entries |-> E] :
       E \in {E \in SUBSET TreeEntries :
                \A e \in E : Len(e.path) = 2 =>
                   [path |-> <<e.path[1]>>, dir |-> TRUE] \in E}}

\* the input path names a file, or nothing
NonDirectories ==
    {[kind |-> k, name |-> n, entries |-> {}] :
       k \in {"file", "absent"},
       n \in {<<"b", ".asm">>, <<"B", ".ASM">>, <<"n", ".txt">>}}

\* Path.rglob("*.asm") / Path.glob("*.asm"): every entry of the directory
\* (of any depth, or of the top) whose name matches, whatever it is
Glob(T, rec) ==
    {e.path : e \in {e \in T.entries :
                       /\ MatchesAsm(e.path[Len(e.path)])
                       /\ rec \/ Len(e.path) = 1}}

\* find_asm_files(path, recursive) of meef_cli.py; the paths are relative
\* to the input path (<<>> is the input path itself)
find_asm_files(T, rec) ==
    IF T.kind = "file"
    THEN IF LowerSuffix(T.name) = ".asm" THEN <<<<>>>> ELSE <<>>
    ELSE IF T.kind # "dir" THEN <<>>
    ELSE SortPaths(Glob(T, rec))

\* find_samples(directory) of meef.py: always recursive; rglob under a file
\* yields nothing
find_samples(T) ==
    IF T.kind = "absent" THEN <<>>
    ELSE SortPaths(Glob(T, TRUE))

\* process_sample: Path(output_dir) / (sample_path.stem + "_ir.json"), for
\* a sample at path p below the input directory T (<<>>: T itself)
ir_path(T, p) ==
    LET name == IF p = <<>> THEN T.name ELSE p[Len(p)]
    IN  <<name[1], "_ir.json">>

InitFind ==
    /\ BatchIdle /\ FeatIdle /\ EntryIdle /\ DataIdle
    /\ tree \in Directories \cup NonDirectories
    /\ recursive \in BOOLEAN
    /\ found = <<>>

\* a run of meef_cli.py --path on the directory
FindAsmFiles ==
    /\ Len(found) < MaxCalls
    /\ found' = Append(found, [by |-> "find_asm_files",
                               result |-> find_asm_files(tree, recursive)])
    /\ UNCHANGED <<batch, feat, entryv, datav, tree, recursive>>

\* a run of meef.py on the directory
FindSamples ==
    /\ Len(found) < MaxCalls
    /\ found' = Append(found, [by |-> "find_samples",
                               result |-> find_samples(tree)])
    /\ UNCHANGED <<batch, feat, entryv, datav, tree, recursive>>

NextFind ==
    \/ FindAsmFiles
    \/ FindSamples

SpecFind == InitFind /\ [][NextFind]_vars


\* ---- the feature dataset: extract_all_features ----------------------------

MaxRows == 2         \* rows of the catalog extract_all_features walks

\* the documents behind the catalog: without an apis list, with an empty
\* one, and with one entry (with or without its count)
DataDocuments == {D \in Documents : D.has \subseteq {"apis"} /\ Len(D.apis) <= 1}

\* what the ir_path of a row holds: nothing, a file that cannot be opened
\* or parsed, or a document
Artifacts ==
    {[state |-> "missing", doc |-> NoDocument],
     [state |-> "unreadable", doc |-> NoDocument]}
      \cup {[state |-> "ok", doc |-> D] : D \in DataDocuments}

\* extract_features_from_ir(ir_path): open and json.load sit inside the
\* same try as the extraction
ExtractFromPath(a) ==
    IF a.state = "ok" THEN extract_features_from_ir(a.doc) ELSE None

\* load_catalog has returned the rows
InitData ==
    /\ BatchIdle /\ FeatIdle /\ EntryIdle /\ FindIdle
    /\ artifacts \in SeqsUpTo(Artifacts, MaxRows)
    /\ idx = 0
    /\ features_list = <<>>

\* `if not ir_path or not Path(ir_path).exists(): continue`
SkipMissing ==
    /\ idx < Len(artifacts)
    /\ artifacts[idx + 1].state = "missing"
    /\ idx' = idx + 1
    /\ UNCHANGED <<batch, feat, entryv, findv, artifacts, features_list>>

\* the rest of the loop body: `if features:` append the row with the
\* entry's sha256 and label (here: the number of the entry)
ExtractRow ==
    /\ idx < Len(artifacts)
    /\ artifacts[idx + 1].state # "missing"
    /\ LET features_ == ExtractFromPath(artifacts[idx + 1])
       IN  features_list' =
             IF features_.ok
             THEN Append(features_list, [entry |-> idx + 1, features |-> features_.value])
             ELSE features_list
    /\ idx' = idx + 1
    /\ UNCHANGED <<batch, feat, entryv, findv, artifacts>>

NextData ==
    \/ SkipMissing
    \/ ExtractRow

SpecData == InitData /\ [][NextData]_vars


\* ---- observations used by the properties ---------------------------------

\* the data rows of the catalog (every line but the header)
Rows == {k \in 1..Len(catalog) : ~catalog[k].hdr}

\* the data rows written on behalf of item i
RowsOf(i) == {k \in Rows : catalog[k].local_path = i}

\* the positions at which an item is inside the dedup-check-then-append
\* sequence of update_catalog (it has looked at the file and not yet left)
InDedupAppend(i) == pc[i] \in {"uc_read", "uc_hdr_check", "uc_hdr_write", "uc_append"}

IsPrefix(s, t) == Len(s) <= Len(t) /\ \A k \in 1..Len(s) : s[k] = t[k]

\* ---- C1 ------------------------------------------------------------------
\* C1: in every reachable state the catalog holds at most one row per
\* fingerprint, for any worker count (stated here for histories without any
\* file-system fault).
C1_OneRowPerFingerprint ==
    faults = 0 =>
      \A k, l \in Rows : catalog[k].sha256 = catalog[l].sha256 => k = l

\* ---- C2 ------------------------------------------------------------------
\* C2: once process_batch has returned, every item whose analysis succeeded
\* with catalog updates enabled has a row with its fingerprint in the catalog
\* (stated here for histories without any file-system fault).
C2_EntryForEverySuccess ==
    (mainPc = "returned" /\ update_catalog /\ faults = 0) =>
      \A i \in Items :
        result[i] = "true" => Digest(content[i]) \in ReadHashes(catalog)

\* ---- C3 ------------------------------------------------------------------
\* C3: a row is in the catalog on behalf of an item only if the analyzer
\* reported success for that item; an item that ended Failed (process_sample
\* returned False) has no row written on its behalf.
C3_NoRowForFailedItem ==
    \A i \in Items :
      RowsOf(i) # {} =>
        \/ pc[i] \in {"cnt_load", "cnt_store"} /\ Success(i)
        \/ pc[i] = "done" /\ result[i] = "true"

\* a batch has returned with a Failed item and with a row of another item
C3_Witness ==
    /\ mainPc = "returned"
    /\ \E i, j \in Items :
         /\ result[i] = "false"
         /\ RowsOf(i) = {}
         /\ RowsOf(j) # {}

\* ---- C4 ------------------------------------------------------------------
\* C4: a parser run that exits 0 but leaves no artifact is reported as a
\* failure by run_parser, and the item does not enter update_catalog.
C4_NoArtifactIsFailure ==
    \A i \in Items :
      outcome[i] = "ok_no_artifact" => ~Success(i) /\ pc[i] \notin UcPcs

\* ---- C5 ------------------------------------------------------------------
\* C5: a parser run that timed out and a parser run that exited non-zero
\* are distinct in what run_parser returned to its caller, and the timed-out
\* item does not enter update_catalog.
C5_TimeoutDistinctFromAnalysisError ==
    \A i, j \in Items :
      (outcome[i] = "timeout" /\ outcome[j] = "nonzero") =>
        /\ Success(i) # Success(j)
        /\ pc[i] \notin UcPcs

\* ---- C6 ------------------------------------------------------------------
\* C6: no two workers are inside the dedup-check-then-append sequence of
\* update_catalog at the same time.
C6_CriticalSection ==
    \A i, j \in Items : (InDedupAppend(i) /\ InDedupAppend(j)) => i = j

\* ---- C7 ------------------------------------------------------------------
\* C7 as stated: no step writes the catalog for one item while another
\* item's analysis is in flight.
C7_NoWriteDuringOtherAnalysis ==
    [][catalog' # catalog => \A j \in Items : ~Analyzing(j)]_vars

\* C7 as amended: an item is inside update_catalog, or has a row in the
\* catalog, only when its own analysis has returned with success and it has
\* not yet been counted or has returned True; its catalog write never
\* overlaps its own analysis.
C7_OwnLifecycleInOrder ==
    \A i \in Items :
      /\ pc[i] \in UcPcs => Success(i) /\ result[i] = "none"
      /\ RowsOf(i) # {} => pc[i] \in {"cnt_load", "cnt_store", "done"}

\* one item has gone through its analysis and has just appended its row,
\* not yet counted, while another item is being analyzed
C7_Witness ==
    /\ parallel > 1
    /\ \E i, j \in Items :
         /\ i # j
         /\ pc[i] = "cnt_load"
         /\ Success(i)
         /\ RowsOf(i) # {}
         /\ Analyzing(j)

\* ---- C8 ------------------------------------------------------------------
\* C8: with worker count N >= 1, at most N items are in state Analyzing at
\* any moment of process_batch.
C8_AnalyzingBounded ==
    parallel >= 1 => Cardinality({i \in Items : Analyzing(i)}) <= parallel

\* the pool is saturated: N > 1 items are being analyzed and one is queued
C8_Witness ==
    /\ parallel > 1
    /\ Cardinality({i \in Items : Analyzing(i)}) = parallel
    /\ \E i \in Items : pc[i] = "pending"

\* ---- C9 ------------------------------------------------------------------
\* C9: with stop-on-error, no item that had not started when the first item
\* failed is started afterwards; without stop-on-error nothing is cancelled.
C9_NothingStartsAfterFirstFailure ==
    /\ (stop_on_error /\ anyFailed) =>
         \A i \in notStartedAtFail : pc[i] \in {"pending", "cancelled"}
    /\ ~stop_on_error => \A i \in Items : pc[i] # "cancelled"

\* ---- C10 -----------------------------------------------------------------
\* C10: when stop-on-error has triggered in parallel mode and process_batch
\* has returned, every item that was in flight at the stop has run to its
\* end and the catalog lines written before the stop are still there,
\* unchanged (stated here for histories without any file-system fault).
C10_DrainedAndNothingUndone ==
    (mainPc = "returned" /\ stopTriggered /\ parallel > 1 /\ faults = 0) =>
      /\ \A i \in inFlightAtStop : pc[i] = "done"
      /\ IsPrefix(catalogAtStop, catalog)

\* ---- C11 -----------------------------------------------------------------
\* C11: a dry run never starts process_sample for any sample (so the
\* analyzer is never invoked and no IR artifact or directory is created),
\* never changes the catalog file, and, when it has exited, has reported
\* exactly one input -> output mapping per collected sample, in order, and
\* exited with status 0.
C11_DryRunOnlyReports ==
    /\ [](dry_run =>
            /\ \A i \in Items : pc[i] \in {"pending", "skipped"}
            /\ (mainPc = "exited" /\ Len(Samples) > 0) =>
                  /\ exitCode = 0
                  /\ Len(reported) = Len(Samples)
                  /\ \A k \in 1..Len(Samples) :
                       reported[k] = <<Samples[k], IrName(Samples[k])>>)
    /\ [][dry_run => UNCHANGED <<catalogExists, catalog>>]_vars

\* a dry run over a batch file whose every line is a sample has exited, with
\* a catalog left by an earlier invocation on disk
C11_Witness ==
    /\ dry_run
    /\ mainPc = "exited"
    /\ Len(reported) = NItems
    /\ catalog = EarlierCatalog

\* ---- C12 -----------------------------------------------------------------
\* an item has ended Failed: its path was not an existing .asm file
\* (NotFound, WrongExtension), process_sample returned False (ToolMissing,
\* AnalysisError, Timeout) or raised (CatalogWriteError)
Failed(i) == pc[i] = "skipped" \/ result[i] \in {"false", "raised"}

\* C12: when a run that was not a dry run and was not interrupted has
\* exited, the exit status is 0 if and only if no item ended Failed.
C12_ExitZeroIffNoFailure ==
    (mainPc = "exited" /\ ~dry_run /\ exitCode # 130) =>
      (exitCode = 0 <=> \A i \in Items : ~Failed(i))

\* ---- C13 -----------------------------------------------------------------
\* C13: when a catalog write error made process_sample raise for some item
\* and the run (without stop-on-error, not interrupted) has exited, every
\* sample of the batch has been processed and the failure has been counted.
C13_WriteErrorFailsItemOnly ==
    (/\ \E i \in Items : result[i] = "raised"
     /\ ~stop_on_error
     /\ mainPc = "exited"
     /\ exitCode # 130) =>
      /\ \A j \in SampleSet : pc[j] = "done"
      /\ failure_count >= 1

HeaderThenRows(f) ==
    Len(f) > 0 => f[1].hdr /\ \A k \in 2..Len(f) : ~f[k].hdr

\* C15: without file-system faults the catalog is always empty or a header
\* followed by data rows, and the step that writes the header is taken
\* only on an absent or empty catalog (no later call rewrites it), for any
\* number of workers.
C15_HeaderWrittenOnce ==
    /\ [](faults = 0 => HeaderThenRows(catalog))
    /\ [][(/\ faults' = 0
            /\ \E i \in Items : pc[i] = "uc_hdr_write" /\ pc'[i] = "uc_append")
           => Len(catalog) = 0]_vars

\* ---- C16 -----------------------------------------------------------------
\* C16: without file-system faults every step leaves the lines the catalog
\* held before it as a prefix of the lines it holds after it.
C16_AppendOnly ==
    [][faults' = 0 => IsPrefix(catalog, catalog')]_vars

\* ---- observations of the feature pipeline --------------------------------

\* extract_features_from_ir has returned for the document
TrainingDone == stage \in {"extracted", "schema", "predicted"}
\* MalwarePredictor.extract_features has returned for the document
InferenceDone == stage = "predicted"

\* feature name f reads a behavior flag the document does not carry (the
\* key is absent, or the whole behavior section is)
FlagAbsent(f) ==
    StartsWith(f, <<"uses">>) /\ f \notin DOMAIN Section(ir, "behavior")
\* feature name f reads a cfg scalar the document does not carry
CfgScalarAbsent(f) ==
    StartsWith(f, <<"cfg">>) /\ Tail(f) \notin DOMAIN Section(ir, "cfg")

\* the training columns computed from the apis list alone, and from the
\* opcodes list alone
ApiColumns ==
    {<<"num", "unique", "apis">>, <<"total", "api", "calls">>}
    \cup {<<"top", "api", str(k), "count">> : k \in 1..TopK}
OpcodeColumns ==
    {<<"num", "unique", "opcodes">>, <<"total", "opcodes">>}
    \cup {<<"opcode", Lowered[k], "count">> : k \in 1..Len(Lowered)}

\* ---- C17 -----------------------------------------------------------------
\* C17: for every schema and every document, the inference extractor
\* returns a vector with exactly as many entries as the schema has names.
C17_VectorLengthIsSchemaLength ==
    InferenceDone =>
      features.ok /\ Len(features.value) = Len(feature_names)

\* ---- C18 -----------------------------------------------------------------
\* C18: when the training extractor produced the features of a document
\* and the schema is the training columns, the inference extractor returns
\* a vector, and its entry for every name equals the training value.
C18_TrainingAndInferenceAgree ==
    (InferenceDone /\ extracted.ok /\ feature_names = TrainingColumns) =>
      /\ features.ok
      /\ \A k \in 1..Len(feature_names) :
           features.value[k] = extracted.value[feature_names[k]]

\* ---- C19 -----------------------------------------------------------------
\* C19: a behavior flag the document lacks reads as 0 on both paths: the
\* training features hold 0 under its name, and the inference extractor,
\* asked for that name alone, returns the vector <<0>> and does not fail.
C19_MissingFlagIsZero ==
    /\ (TrainingDone /\ extracted.ok) =>
         \A f \in TrainingColumnSet :
           FlagAbsent(f) => extracted.value[f] = Num(0)
    /\ (InferenceDone /\ Len(feature_names) = 1) =>
         (FlagAbsent(feature_names[1]) => features = Returned(<<Num(0)>>))

\* ---- C20 -----------------------------------------------------------------
\* C20: no absent field makes either extractor fail, and an absent cfg
\* scalar, cfg section, API list or opcode list reads as 0 in the training
\* features and in the inference vector.
C20_AbsentFieldIsZero ==
    /\ TrainingDone =>
         /\ extracted.ok
         /\ \A f \in TrainingColumnSet :
              \/ CfgScalarAbsent(f)
              \/ "apis" \notin ir.has /\ f \in ApiColumns
              \/ "opcodes" \notin ir.has /\ f \in OpcodeColumns
              => extracted.value[f] = Num(0)
    /\ InferenceDone =>
         /\ features.ok
         /\ \A k \in 1..Len(feature_names) :
              CfgScalarAbsent(feature_names[k]) => features.value[k] = Num(0)

\* ---- C21 -----------------------------------------------------------------
RatioNames ==
    {<<"call", "ratio">>, <<"jmp", "ratio">>, <<"api", "to", "opcode", "ratio">>}

\* the value a derived ratio is to have for the document: 0 when the total
\* opcode count is 0, else numerator / total opcode count (the numerator
\* is the count recorded for CALL, for JMP, or the total of the API counts)
RatioOf(D, f) ==
    LET opcodes == Section(D, "opcodes")
        total == SumCounts(opcodes)
        numerator ==
            IF f = <<"call", "ratio">> THEN Get(NameCountDict(opcodes), "CALL", 0)
            ELSE IF f = <<"jmp", "ratio">> THEN Get(NameCountDict(opcodes), "JMP", 0)
            ELSE SumCounts(Section(D, "apis"))
    IN  IF total = 0 THEN Num(0) ELSE Quot(numerator, total)

\* C21: the inference extractor asked for one derived ratio alone never
\* fails, and on both paths every derived ratio that was computed is 0
\* when the total opcode count is 0 and numerator / total otherwise.
C21_RatioGuarded ==
    /\ (InferenceDone /\ Len(feature_names) = 1 /\ feature_names[1] \in RatioNames)
         => features.ok
    /\ (InferenceDone /\ features.ok) =>
         \A k \in 1..Len(feature_names) :
           feature_names[k] \in RatioNames =>
             features.value[k] = RatioOf(ir, feature_names[k])
    /\ (TrainingDone /\ extracted.ok) =>
         \A f \in RatioNames : extracted.value[f] = RatioOf(ir, f)

\* ---- C22 -----------------------------------------------------------------
\* the k-th largest call count of the API list of the document, 0 when the
\* list has fewer than k entries
KthLargestCount(D, k) ==
    LET sorted == SortedByCount(Section(D, "apis"))
    IN  IF k <= Len(sorted) THEN Get(sorted[k], "count", 0) ELSE 0

\* C22: on both paths every top_api_k_count that was computed is the k-th
\* largest call count of the API list (0 beyond its length).
C22_TopKIsKthLargest ==
    /\ (InferenceDone /\ features.ok) =>
         \A n \in 1..Len(feature_names) : \A k \in 1..TopK :
           feature_names[n] = <<"top", "api", str(k), "count">> =>
             features.value[n] = Num(KthLargestCount(ir, k))
    /\ (TrainingDone /\ extracted.ok) =>
         \A k \in 1..TopK :
           extracted.value[<<"top", "api", str(k), "count">>]
             = Num(KthLargestCount(ir, k))

\* ---- C23 -----------------------------------------------------------------
\* no decoding rule of the inference extractor applies to the name
Unrecognized(f) ==
    /\ ~StartsWith(f, <<"uses">>) /\ ~StartsWith(f, <<"cfg">>)
    /\ ~StartsWith(f, <<"top", "api">>) /\ ~StartsWith(f, <<"opcode">>)
    /\ f \notin RatioNames
    /\ f \notin {<<"num", "unique", "apis">>, <<"total", "api", "calls">>,
                 <<"num", "unique", "opcodes">>, <<"total", "opcodes">>}

\* C23: for every schema that contains an unrecognized name the inference
\* extractor returns a full vector, with 0 in the slot of that name.
C23_UnknownNameIsZero ==
    (InferenceDone /\ \E k \in 1..Len(feature_names) : Unrecognized(feature_names[k]))
      => /\ features.ok
         /\ Len(features.value) = Len(feature_names)
         /\ \A k \in 1..Len(feature_names) :
              Unrecognized(feature_names[k]) => features.value[k] = Num(0)

\* ---- C27 -----------------------------------------------------------------
\* every value calculate_sha256 has returned for item i that is still on
\* record: the local of its update_catalog call and its rows of the catalog
Returned256(i) ==
    ({sha256[i]} \cup {catalog[k].sha256 : k \in RowsOf(i)}) \ {NoDigest}

\* the fingerprints among them
FingerprintsOf(i) == Returned256(i) \ {HASH_ERROR}

BatchOver == mainPc \in {"returned", "crashed"} \/ (mainPc = "exited" /\ ~dry_run)

\* C29: when process_batch is over in a run without stop-on-error that was
\* not interrupted, every sample of the batch has been processed and has
\* ended Succeeded or Failed, whatever happened to the other samples.
C29_ErrorsIsolated ==
    (BatchOver /\ ~stop_on_error /\ exitCode # 130) =>
      \A j \in SampleSet :
        /\ pc[j] = "done"
        /\ result[j] = "true" \/ Failed(j)

\* ---- C24 -----------------------------------------------------------------
\* an entry has been written by a program that takes a label
Labelled == entry.by = "meef_cli" /\ label_given

\* C24: a label supplied on the command line, whatever its value and
\* whatever the sample's path, is the label of the entry.
C24_ExplicitLabelWins == Labelled => entry.label = label

\* ---- C25 -----------------------------------------------------------------
\* the flags of the IR document that are set (a document that could not be
\* read has none)
SetFlags ==
    IF entry.read
    THEN {f \in BehaviorFlagSet : Truthy(Section(ir, "behavior"), f)}
    ELSE {}

\* the tokens of a set of flags in the order of the flag list
TokensOf(F) ==
    LET set == SelectSeq(BehaviorFlags, LAMBDA f : f \in F)
    IN  [k \in 1..Len(set) |-> NoteToken(set[k])]

\* C25: the notes of an entry written by update_catalog are the literal
\* none exactly when no flag of the IR document is set, and otherwise the
\* tokens of exactly the set flags, each once, in the order of the flag
\* list, with ", " between neighbours.
C25_NotesAreSetFlags ==
    entry.by \in {"meef_cli", "meef"} =>
      /\ entry.notes = <<"none">> <=> SetFlags = {}
      /\ SetFlags # {} => entry.notes = Join(TokensOf(SetFlags))

\* ---- C30 -----------------------------------------------------------------
\* the label vocabulary of the catalog
Labels == {"malicious", "benign", "unknown", "dummy"}

\* C30: the label of every entry written is in the label vocabulary.
C30_LabelInVocabulary == entry.by # "none" => entry.label \in Labels

\* ---- C26 -----------------------------------------------------------------
\* the .asm files of the directory a call looks at: regular files whose
\* name matches, at any depth or at the top as the call asks
AsmFiles(deep) ==
    {e.path : e \in {e \in tree.entries :
                       /\ ~e.dir
                       /\ MatchesAsm(e.path[Len(e.path)])
                       /\ deep \/ Len(e.path) = 1}}

\* whether a call descends into subdirectories
Deep(call) == call.by = "find_samples" \/ recursive

\* the sequence has no repetition and is in ascending path order
Ascending(r) == \A a, b \in 1..Len(r) : a < b => PathLess(r[a], r[b])

\* the calls of one discovery function on the same directory return the
\* same ascending sequence
Deterministic ==
    \A k, l \in 1..Len(found) :
      /\ Ascending(found[k].result)
      /\ found[k].by = found[l].by => found[k].result = found[l].result

\* C26: every call of a discovery function on an unchanged directory returns
\* the same sequence: exactly the .asm files of the directory (of any depth
\* when recursive), in ascending path order.
C26_DiscoveryDeterministic ==
    tree.kind = "dir" =>
      /\ Deterministic
      /\ \A k \in 1..Len(found) :
           {found[k].result[a] : a \in 1..Len(found[k].result)}
             = AsmFiles(Deep(found[k]))

\* ---- C28 -----------------------------------------------------------------
\* the rows of the dataset that come from catalog entry k
DatasetRowsOf(k) == {r \in 1..Len(features_list) : features_list[r].entry = k}

\* C28: of the catalog entries the loop has passed, each one whose artifact
\* exists and can be read has exactly one row in the dataset and each other
\* one has none; the loop passes every entry.
C28_OneRowPerReadableArtifact ==
    /\ \A k \in 1..idx :
         Cardinality(DatasetRowsOf(k)) = IF artifacts[k].state = "ok" THEN 1 ELSE 0
    /\ idx <= Len(artifacts)

\* ---- C31 -----------------------------------------------------------------
\* item i is inside update_catalog for a sample whose fingerprint has a row
\* in the catalog; the fingerprint was computed and the catalog was read
Recataloguing(i) ==
    /\ pc[i] \in UcPcs
    /\ Digest(content[i]) \in ReadHashes(catalog)
    /\ sha256[i] # HASH_ERROR
    /\ i \notin readFailed

C32_StrictlySequential ==
    /\ [](parallel <= 1 =>
            /\ NumInFlight <= 1
            /\ \A k \in 1..Len(Samples) :
                 pc[Samples[k]] # "pending" =>
                    \A l \in 1..(k - 1) : pc[Samples[l]] = "done")
    /\ [][\A i \in Items :
            (parallel <= 1 /\ pc[i] = "pending" /\ Analyzing(i)') =>
               \A j \in SampleSet : j < i => pc[j] = "done" /\ result[j] # "none"]_vars

\* a sequential batch of three samples: the first has been counted and has
\* returned with its row in the catalog, the second is being analyzed, the
\* third is waiting
C32_Witness ==
    /\ parallel <= 1
    /\ Len(Samples) = NItems
    /\ pc[Samples[1]] = "done" /\ RowsOf(Samples[1]) # {}
    /\ Analyzing(Samples[2])
    /\ pc[Samples[NItems]] = "pending"

\* ---- C33 -----------------------------------------------------------------
\* C33: when the analyzer is invoked for an item, the item's fingerprint
\* has been computed (and looked up in the catalog): hash and dedup check
\* come before the analysis.
C33_HashBeforeAnalyze ==
    \A i \in Items : Analyzing(i) => sha256[i] # NoDigest

\* ---- C34 -----------------------------------------------------------------
\* C34: the analyzer is invoked for an item only when the item has not been
\* started, and an item that has been started is never put back: within one
\* process_batch run the tool runs at most once per item, whatever its
\* outcome and whatever the worker count.
C34_AnalyzerNeverRetried ==
    [][\A i \in Items :
         /\ (~Analyzing(i) /\ Analyzing(i)') => pc[i] = "pending"
         /\ pc[i] # "pending" => pc'[i] # "pending"]_vars

\* a batch run by several workers has returned with every analysis failed
\* and counted once
C34_Witness ==
    /\ parallel > 1
    /\ mainPc = "returned"
    /\ \A i \in Items : result[i] = "false"
    /\ failure_count = NItems

\* ---- C35 -----------------------------------------------------------------
\* C35: when process_batch has returned without stop-on-error, every sample
\* has been counted exactly once: success_count is the number of samples
\* that succeeded, failure_count the number that failed, and their sum the
\* number of samples (stated here for histories without any file-system
\* fault).
C35_CountsExact ==
    (mainPc = "returned" /\ ~stop_on_error /\ faults = 0) =>
      /\ success_count = Cardinality({i \in SampleSet : result[i] = "true"})
      /\ failure_count = Cardinality({i \in SampleSet : result[i] # "true"})
      /\ success_count + failure_count = Len(Samples)

\* ---- C36 -----------------------------------------------------------------
\* C36: the samples one discovery hands to the batch are mapped to pairwise
\* distinct IR artifact paths (so that no analysis overwrites the artifact
\* of another sample of the batch).
C36_DistinctIrPaths ==
    \A k \in 1..Len(found) :
      found[k].by = "find_asm_files" =>
        \A a, b \in 1..Len(found[k].result) :
          a # b => ir_path(tree, found[k].result[a]) # ir_path(tree, found[k].result[b])

\* ---- C37 -----------------------------------------------------------------
\* C37: every data row of the catalog written for a sample of the batch
\* carries the digest of that sample's bytes; HASH_ERROR is in no row.
C37_RowsCarryDigests ==
    \A k \in Rows :
      /\ catalog[k].sha256 # HASH_ERROR
      /\ catalog[k].local_path \in Items =>
           catalog[k].sha256 = Digest(content[catalog[k].local_path])

\* ---- C38 -----------------------------------------------------------------
\* C38: when no label was supplied, what one of the two update_catalog
\* operations has done for a sample is what the other one does for the same
\* sample path, IR document and catalog: both append nothing, or both append
\* a row with the same label and the same notes.
C38_SameCatalogAppend ==
    (entry.by \in {"meef_cli", "meef"} /\ ~label_given) =>
      LET cli == CliRow(label, sample_path, ir, entry.read, ~entry.appended)
          meef == MeefRow(label, sample_path, ir, entry.read, ~entry.appended)
      IN  /\ entry \in {cli, meef}
          /\ cli.appended = meef.appended
          /\ cli.appended => cli.label = meef.label /\ cli.notes = meef.notes

====
